---- MODULE Spec2Model ----
(***************************************************************************)
(* Model of plot_growth_contributions.py: the growth decomposition         *)
(* (extract_dfs) and the stacked-bar geometry (tops_bottoms), and the      *)
(* pipeline plot_contributions that chains them.                           *)
(*                                                                         *)
(* Numbers.  A cell is a float64.  It is modelled as a pair <<n, d>>:      *)
(*   d > 0   the real number n/d, in lowest terms;                         *)
(*   <<1,0>> +inf,  <<-1,0>> -inf,  <<0,0>> NaN.                           *)
(* The arithmetic follows IEEE-754 for the non-finite values (x/0, inf*0,  *)
(* inf-inf, NaN propagation, comparisons with NaN are false).  Rounding is *)
(* not modelled: finite results are exact rationals, so an equality here   *)
(* is the code's equality "within floating-point tolerance".  Inputs carry *)
(* no negative zero.                                                       *)
(*                                                                         *)
(* Frames.  A pandas DataFrame is a record                                 *)
(*   [index |-> labels, columns |-> names in order, data |-> name -> column]*)
(* and a column is a sequence of cells, one per index label.               *)
(***************************************************************************)
EXTENDS Integers, Sequences, FiniteSets, TLC

VARIABLES frames, op, raised, growth_df, contrib_df, tops_df, bots_df

vars == <<frames, op, raised, growth_df, contrib_df, tops_df, bots_df>>

(***************************************************************************)
(* Bounds of the model.                                                    *)
(***************************************************************************)
MaxPeriods == 3
MaxStackRows == 2
Categories == <<"A", "B">>
StackCategories == <<"A", "B", "C">>
CellValues == {-1, 0, 1}
StackValues == {-3, 0, 2}

(***************************************************************************)
(* float64 arithmetic                                                      *)
(***************************************************************************)
Abs(x) == IF x < 0 THEN -x ELSE x

Sign(x) == IF x > 0 THEN 1 ELSE IF x < 0 THEN -1 ELSE 0

RECURSIVE GCD(_, _)
GCD(a, b) == IF b = 0 THEN a ELSE GCD(b, a % b)

Norm(n, d) == LET g == GCD(Abs(n), d) IN <<n \div g, d \div g>>

NaN == <<0, 0>>

Real(i) == <<i, 1>>

IsFinite(v) == v[2] > 0

IsNaN(v) == v = NaN

FNeg(a) == <<-a[1], a[2]>>

FAdd(a, b) ==
    IF IsNaN(a) \/ IsNaN(b) THEN NaN
    ELSE IF ~IsFinite(a) THEN (IF ~IsFinite(b) /\ b # a THEN NaN ELSE a)
    ELSE IF ~IsFinite(b) THEN b
    ELSE Norm(a[1] * b[2] + b[1] * a[2], a[2] * b[2])

FSub(a, b) == FAdd(a, FNeg(b))

FMul(a, b) ==
    IF IsNaN(a) \/ IsNaN(b) THEN NaN
    ELSE IF ~IsFinite(a) \/ ~IsFinite(b)
         THEN <<Sign(a[1]) * Sign(b[1]), 0>>
    ELSE Norm(a[1] * b[1], a[2] * b[2])

FDiv(a, b) ==
    IF IsNaN(a) \/ IsNaN(b) THEN NaN
    ELSE IF ~IsFinite(a)
         THEN (IF ~IsFinite(b) THEN NaN
               ELSE IF b[1] < 0 THEN FNeg(a) ELSE a)
    ELSE IF ~IsFinite(b) THEN Real(0)
    ELSE IF b[1] = 0 THEN <<Sign(a[1]), 0>>
    ELSE Norm(a[1] * b[2] * Sign(b[1]), a[2] * Abs(b[1]))

FGe0(v) == ~IsNaN(v) /\ v[1] >= 0

(***************************************************************************)
(* DataFrame operations                                                    *)
(***************************************************************************)
Range(s) == {s[i] : i \in 1..Len(s)}

EmptyFrame == [index |-> <<>>, columns |-> <<>>, data |-> <<>>]

NumRows(f) == Len(f.index)

SetColumn(f, name, col) ==
    [index |-> f.index,
     columns |-> IF name \in Range(f.columns) THEN f.columns
                 ELSE Append(f.columns, name),
     data |-> [n \in Range(f.columns) \cup {name} |->
                 IF n = name THEN col ELSE f.data[n]]]

Shift(col) ==
    IF Len(col) = 0 THEN <<>> ELSE <<NaN>> \o SubSeq(col, 1, Len(col) - 1)

ColSub(a, b) == [i \in 1..Len(a) |-> FSub(a[i], b[i])]

ColMul(a, b) == [i \in 1..Len(a) |-> FMul(a[i], b[i])]

ColDiv(a, b) == [i \in 1..Len(a) |-> FDiv(a[i], b[i])]

RECURSIVE SumCells(_, _, _)
SumCells(f, cols, i) ==
    IF cols = <<>> THEN Real(0)
    ELSE FAdd(SumCells(f, SubSeq(cols, 1, Len(cols) - 1), i),
              f.data[cols[Len(cols)]][i])

RowSum(f) == [i \in 1..NumRows(f) |-> SumCells(f, f.columns, i)]

Select(f, names) ==
    [index |-> f.index, columns |-> names,
     data |-> [n \in Range(names) |-> f.data[n]]]

PositionOf(names, n) == CHOOSE j \in 1..Len(names) : names[j] = n

Rename(f, names) ==
    [index |-> f.index, columns |-> names,
     data |-> [n \in Range(names) |-> f.data[f.columns[PositionOf(names, n)]]]]

DropFirst(s) == SubSeq(s, 2, Len(s))

\* Variant: the first row is not sliced away.
KeepAllRows(f) == f

ILocFrom1(f) ==
    [index |-> DropFirst(f.index), columns |-> f.columns,
     data |-> [n \in Range(f.columns) |-> DropFirst(f.data[n])]]

GrowthName(cat) == "pctg_growth_" \o cat

ContribName(cat) == "contrib_" \o cat

ContribNames(cats) == [j \in 1..Len(cats) |-> ContribName(cats[j])]

(***************************************************************************)
(* extract_dfs.  The heap holds the caller's frame under "df" and the      *)
(* function's working frame under the reference df.copy() returns.  Every  *)
(* column assignment of the code is one Store into the working frame.      *)
(***************************************************************************)
Store(h, ref, f) == [h EXCEPT ![ref] = f]

\* Variant: dff = df, an alias of the caller's frame instead of a copy.
AliasRef(ref) == ref

CopyRef(ref) == "dff"

Total(dff) == RowSum(dff)

GrowthTotal(dff) ==
    ColDiv(ColSub(dff.data["total"], Shift(dff.data["total"])),
           Shift(dff.data["total"]))

\* Variant: the rate is divided by the current-period value of the category.
CatGrowthOwn(df, dff, cat) ==
    ColDiv(ColSub(dff.data[cat], Shift(df.data[cat])), dff.data[cat])

CatGrowth(df, dff, cat) ==
    ColDiv(ColSub(dff.data[cat], Shift(df.data[cat])), Shift(dff.data[cat]))

\* Variant: the contribution is computed without the intermediate rate.
CatContribDirect(dff, cat) ==
    ColDiv(ColSub(dff.data[cat], Shift(dff.data[cat])), Shift(dff.data["total"]))

CatContrib(dff, cat) ==
    ColDiv(ColMul(dff.data[GrowthName(cat)], Shift(dff.data[cat])),
           Shift(dff.data["total"]))

RECURSIVE AssignCatGrowth(_, _, _, _)
AssignCatGrowth(h, df, dff, cats) ==
    IF cats = <<>> THEN h
    ELSE AssignCatGrowth(
             Store(h, dff, SetColumn(h[dff], GrowthName(Head(cats)),
                                     CatGrowth(h[df], h[dff], Head(cats)))),
             df, dff, Tail(cats))

RECURSIVE AssignCatContrib(_, _, _)
AssignCatContrib(h, dff, cats) ==
    IF cats = <<>> THEN h
    ELSE AssignCatContrib(
             Store(h, dff, SetColumn(h[dff], ContribName(Head(cats)),
                                     CatContrib(h[dff], Head(cats)))),
             dff, Tail(cats))

\* The heap, the categories and the two returned frames of extract_dfs(df).
extract_dfs(h, df) ==
    LET dff        == CopyRef(df)
        h1         == Store(h, dff, h[df])
        categories == h1[dff].columns
        h2         == Store(h1, dff, SetColumn(h1[dff], "total", Total(h1[dff])))
        h3         == Store(h2, dff, SetColumn(h2[dff], "pctg_growth_total",
                                               GrowthTotal(h2[dff])))
        h4         == AssignCatGrowth(h3, df, dff, categories)
        h5         == AssignCatContrib(h4, dff, categories)
        growth     == Rename(Select(h5[dff], <<"pctg_growth_total">>), <<"total">>)
        contrib    == Rename(Select(h5[dff], ContribNames(categories)), categories)
    IN  [heap |-> h5,
         growth_df |-> ILocFrom1(growth),
         contrib_df |-> ILocFrom1(contrib)]

\* extract_dfs has no raise statement and checks no shape.
ExtractRaises(f) == "none"

(***************************************************************************)
(* tops_bottoms                                                            *)
(***************************************************************************)
\* np.array(df): the matrix of the frame's cells, dfa[i][j].
AsArray(f) ==
    [i \in 1..NumRows(f) |-> [j \in 1..Len(f.columns) |-> f.data[f.columns[j]][i]]]

\* pd.DataFrame(a) with the columns and the index of df.
AsFrame(a, f) ==
    [index |-> f.index, columns |-> f.columns,
     data |-> [n \in Range(f.columns) |->
                 [i \in 1..NumRows(f) |-> a[i][PositionOf(f.columns, n)]]]]

\* Variant: the sign test is dfa[i, j] > 0.
StrictlyPositive(v) == ~IsNaN(v) /\ v[1] > 0

NonNegative(v) == FGe0(v)

\* Variants: the accumulator is assigned, or decreased, instead of increased.
Overwrite(acc, v) == v

Subtract(acc, v) == FSub(acc, v)

Accumulate(acc, v) == FAdd(acc, v)

\* Variant: neg and pos are initialised once, outside the loop over rows.
KeepAcc(acc) == acc

RowStart(acc) == Real(0)

\* The inner loop over j for one row, from column j on.
RECURSIVE StackRow(_, _, _, _, _, _)
StackRow(row, j, neg, pos, tops, bots) ==
    IF j > Len(row) THEN [tops |-> tops, bots |-> bots, neg |-> neg, pos |-> pos]
    ELSE IF NonNegative(row[j])
         THEN LET pos2 == Accumulate(pos, row[j])
              IN  StackRow(row, j + 1, neg, pos2,
                           Append(tops, pos2), Append(bots, pos))
         ELSE LET neg2 == Accumulate(neg, row[j])
              IN  StackRow(row, j + 1, neg2, pos,
                           Append(tops, neg), Append(bots, neg2))

\* The outer loop over i, from row i on.
RECURSIVE StackRows(_, _, _, _, _, _)
StackRows(dfa, i, neg, pos, tops, bots) ==
    IF i > Len(dfa) THEN [tops |-> tops, bots |-> bots]
    ELSE LET r == StackRow(dfa[i], 1, RowStart(neg), RowStart(pos), <<>>, <<>>)
         IN  StackRows(dfa, i + 1, r.neg, r.pos,
                       Append(tops, r.tops), Append(bots, r.bots))

tops_bottoms(f) ==
    LET r == StackRows(AsArray(f), 1, Real(0), Real(0), <<>>, <<>>)
    IN  [tops_df |-> AsFrame(r.tops, f), bots_df |-> AsFrame(r.bots, f)]

(***************************************************************************)
(* The caller's tables                                                     *)
(***************************************************************************)
Prefixes(names) == {SubSeq(names, 1, k) : k \in 0..Len(names)}

\* The frame with the given columns whose row i is the integer row m[i],
\* under pandas' default index 0, 1, 2, ...
TableOf(cols, m) ==
    [index |-> [i \in 1..Len(m) |-> i - 1],
     columns |-> cols,
     data |-> [c \in Range(cols) |->
                 [i \in 1..Len(m) |-> Real(m[i][PositionOf(cols, c)])]]]

\* The two worked examples of the documentation.
GrowthScenario == TableOf(<<"A", "B">>, <<<<10, 20>>, <<15, 25>>, <<12, 30>>>>)

StackScenario == TableOf(<<"A", "B", "C">>, <<<<5, -3, 2>>>>)

\* frames holds the table t of the caller and no working frame yet.
Holds(t) == frames = [df |-> t, dff |-> EmptyFrame]

\* The caller holds some table with n rows in rows, columns in colsets and
\* cells in values.
HoldsSome(rows, colsets, values) ==
    \E n \in rows : \E cols \in colsets :
        \E m \in [1..n -> [1..Len(cols) -> values]] : Holds(TableOf(cols, m))

(***************************************************************************)
(* Calls                                                                   *)
(***************************************************************************)
Init ==
    /\ \/ HoldsSome(0..MaxPeriods, Prefixes(Categories), CellValues)
       \/ Holds(GrowthScenario)
    /\ op = "none"
    /\ raised = "none"
    /\ growth_df = EmptyFrame
    /\ contrib_df = EmptyFrame
    /\ tops_df = EmptyFrame
    /\ bots_df = EmptyFrame

StackInit ==
    /\ \/ HoldsSome(1..MaxStackRows, Prefixes(StackCategories) \ {<<>>},
                    StackValues)
       \/ Holds(StackScenario)
    /\ op = "none"
    /\ raised = "none"
    /\ growth_df = EmptyFrame
    /\ contrib_df = EmptyFrame
    /\ tops_df = EmptyFrame
    /\ bots_df = EmptyFrame

\* growth, contribs = extract_dfs(df)
ExtractDfs ==
    LET r == extract_dfs(frames, "df")
    IN  /\ frames' = r.heap
        /\ op' = "extract_dfs"
        /\ raised' = ExtractRaises(frames["df"])
        /\ growth_df' = r.growth_df
        /\ contrib_df' = r.contrib_df
        /\ tops_df' = EmptyFrame
        /\ bots_df' = EmptyFrame

\* tops, bottoms = tops_bottoms(df)
TopsBottoms ==
    LET r == tops_bottoms(frames["df"])
    IN  /\ op' = "tops_bottoms"
        /\ raised' = "none"
        /\ tops_df' = r.tops_df
        /\ bots_df' = r.bots_df
        /\ growth_df' = EmptyFrame
        /\ contrib_df' = EmptyFrame
        /\ UNCHANGED frames

\* plot_contributions(df): extract_dfs, then plot_contrib calls tops_bottoms
\* on the contributions.  The rendering calls are outside the model.
PlotContributions ==
    LET r == extract_dfs(frames, "df")
        s == tops_bottoms(r.contrib_df)
    IN  /\ frames' = r.heap
        /\ op' = "plot_contributions"
        /\ raised' = ExtractRaises(frames["df"])
        /\ growth_df' = r.growth_df
        /\ contrib_df' = r.contrib_df
        /\ tops_df' = s.tops_df
        /\ bots_df' = s.bots_df

Next == ExtractDfs \/ TopsBottoms \/ PlotContributions

Spec == Init /\ [][Next]_vars

StackNext == TopsBottoms

StackSpec == StackInit /\ [][StackNext]_vars

(***************************************************************************)
(* Vocabulary of the properties.  The caller's table holds integers, so    *)
(* what the documentation calls table[t][c] and total[t] are computed here *)
(* in integer arithmetic, apart from the float64 operators above.  Periods *)
(* are counted from 0 as in the documentation: period t is row t + 1.      *)
(***************************************************************************)
CallerTable == frames["df"]

WorkingFrame == frames["dff"]

NumPeriods == NumRows(CallerTable)

TableAt(t, c) == CallerTable.data[c][t + 1][1]

RECURSIVE IntSum(_, _)
IntSum(t, cols) ==
    IF cols = <<>> THEN 0
    ELSE TableAt(t, Head(cols)) + IntSum(t, Tail(cols))

TotalAt(t) == IntSum(t, CallerTable.columns)

Extracted == op \in {"extract_dfs", "plot_contributions"}

\* Output row r of extract_dfs is meant to be period r (period 0 is dropped).
OutPeriods == 1..NumRows(growth_df)

GrowthAt(t) == growth_df.data["total"][t]

ContribAt(t, c) == contrib_df.data[c][t]

\* The float64 value v is the real number num/den (den # 0).
IsRatio(v, num, den) == IsFinite(v) /\ v[1] * den = num * v[2]

\* The float64 value v is what num/0 evaluates to: inf, -inf or NaN.
IsOverZero(v, num) == v = <<Sign(num), 0>>

(***************************************************************************)
(* Properties of extract_dfs, checked under Spec                           *)
(***************************************************************************)

\* C1: for a table with at least 2 periods and 1 category whose prior-period
\* totals are all nonzero (cells may be negative or zero), the contributions
\* of every output period sum to the growth of that period.
C1_DecompositionSum ==
    (/\ Extracted
     /\ NumPeriods >= 2
     /\ Len(CallerTable.columns) >= 1
     /\ \A t \in 0..(NumPeriods - 2) : TotalAt(t) # 0)
    => \A t \in OutPeriods :
           SumCells(contrib_df, contrib_df.columns, t) = GrowthAt(t)

\* C2, as stated: the contribution is cat_growth * table[t-1][c] / total[t-1]
\* with cat_growth = (table[t][c] - table[t-1][c]) / table[t][c], the rate
\* divided by the current-period value.
C2_OwnNormalization ==
    Extracted =>
        \A t \in OutPeriods : \A c \in Range(CallerTable.columns) :
            ContribAt(t, c) =
                FDiv(FMul(FDiv(Real(TableAt(t, c) - TableAt(t - 1, c)),
                               Real(TableAt(t, c))),
                          Real(TableAt(t - 1, c))),
                     Real(TotalAt(t - 1)))

\* C2, amended: the intermediate rate is (table[t][c] - table[t-1][c]) /
\* table[t-1][c], divided by the prior-period value, and the contribution is
\* rate * table[t-1][c] / total[t-1]: the real (table[t][c] - table[t-1][c]) /
\* total[t-1] when table[t-1][c] and total[t-1] are nonzero, NaN when
\* table[t-1][c] is zero, and (table[t][c] - table[t-1][c]) / 0 otherwise.
C2_PriorNormalization ==
    Extracted =>
        \A t \in OutPeriods : \A c \in Range(CallerTable.columns) :
            LET prev == TableAt(t - 1, c)
                cur  == TableAt(t, c)
                tot  == TotalAt(t - 1)
                rate == WorkingFrame.data[GrowthName(c)][t + 1]
            IN  /\ IF prev # 0 THEN IsRatio(rate, cur - prev, prev)
                   ELSE IsOverZero(rate, cur - prev)
                /\ IF prev = 0 THEN IsNaN(ContribAt(t, c))
                   ELSE IF tot # 0 THEN IsRatio(ContribAt(t, c), cur - prev, tot)
                   ELSE IsOverZero(ContribAt(t, c), cur - prev)

\* A category that goes from 10 to 15 while the prior total is 30: the
\* contribution is 5/30 = 1/6 (the own-normalised formula would give 1/9).
C2_Witness ==
    /\ Extracted
    /\ CallerTable = GrowthScenario
    /\ ContribAt(1, "A") = <<1, 6>>
    /\ WorkingFrame.data[GrowthName("A")][2] = <<1, 2>>

\* C3: with N >= 1 input periods, the growth series and the contribution
\* table have exactly the N-1 periods 1..N-1 of the input, in order, and
\* growth[t] = (total[t] - total[t-1]) / total[t-1].
C3_FirstPeriodExcluded ==
    (Extracted /\ NumPeriods >= 1) =>
        /\ growth_df.index = [i \in 1..(NumPeriods - 1) |-> CallerTable.index[i + 1]]
        /\ contrib_df.index = growth_df.index
        /\ growth_df.columns = <<"total">>
        /\ contrib_df.columns = CallerTable.columns
        /\ Len(growth_df.data["total"]) = NumPeriods - 1
        /\ \A c \in Range(contrib_df.columns) :
               Len(contrib_df.data[c]) = NumPeriods - 1
        /\ \A t \in 1..(NumPeriods - 1) :
               LET prev == TotalAt(t - 1)
               IN  IF prev # 0 THEN IsRatio(GrowthAt(t), TotalAt(t) - prev, prev)
                   ELSE IsOverZero(GrowthAt(t), TotalAt(t) - prev)

\* Three periods in, periods 1 and 2 out: totals 30, 40, 42 give the growth
\* values 1/3 and 1/20.
C3_Witness ==
    /\ op = "extract_dfs"
    /\ CallerTable = GrowthScenario
    /\ growth_df.index = <<1, 2>>
    /\ growth_df.data["total"] = <<<<1, 3>>, <<1, 20>>>>

\* C7: extract_dfs fails with InvalidShape, instead of returning, whenever
\* the table has fewer than 2 periods or 0 categories.
C7_InvalidShapeRaised ==
    (Extracted /\ (NumPeriods < 2 \/ Len(CallerTable.columns) = 0))
    => raised = "InvalidShape"

\* C8, as stated: no raise; a zero prior total makes growth[t] and the
\* contributions of period t non-finite, a zero current value table[t][c]
\* makes contrib[t][c] non-finite, and every cell whose divisors (total[t-1],
\* table[t][c]) are nonzero is finite.
C8_CurrentValueDivisor ==
    Extracted =>
        /\ raised = "none"
        /\ \A t \in OutPeriods :
               /\ TotalAt(t - 1) = 0 => ~IsFinite(GrowthAt(t))
               /\ TotalAt(t - 1) # 0 => IsFinite(GrowthAt(t))
               /\ \A c \in Range(CallerTable.columns) :
                      /\ TotalAt(t - 1) = 0 => ~IsFinite(ContribAt(t, c))
                      /\ TableAt(t, c) = 0 => ~IsFinite(ContribAt(t, c))
                      /\ (TotalAt(t - 1) # 0 /\ TableAt(t, c) # 0)
                             => IsFinite(ContribAt(t, c))

\* C8, amended: no raise; a zero prior total makes growth[t] and the
\* contributions of period t non-finite, a zero prior value table[t-1][c]
\* makes contrib[t][c] non-finite, and every cell whose divisors (total[t-1],
\* and table[t-1][c] for a contribution) are nonzero is finite.
C8_PriorValueDivisor ==
    Extracted =>
        /\ raised = "none"
        /\ \A t \in OutPeriods :
               /\ TotalAt(t - 1) = 0 => ~IsFinite(GrowthAt(t))
               /\ TotalAt(t - 1) # 0 => IsFinite(GrowthAt(t))
               /\ \A c \in Range(CallerTable.columns) :
                      /\ TotalAt(t - 1) = 0 => ~IsFinite(ContribAt(t, c))
                      /\ TableAt(t - 1, c) = 0 => ~IsFinite(ContribAt(t, c))
                      /\ (TotalAt(t - 1) # 0 /\ TableAt(t - 1, c) # 0)
                             => IsFinite(ContribAt(t, c))

\* One call that meets all three cases: period 1 has a zero prior total,
\* period 2 a zero prior value next to a nonzero one under a nonzero total.
C8_Witness ==
    /\ Extracted
    /\ raised = "none"
    /\ NumPeriods = 3
    /\ CallerTable.columns = <<"A", "B">>
    /\ TotalAt(0) = 0 /\ TableAt(0, "A") # 0
    /\ TotalAt(1) # 0 /\ TableAt(1, "A") = 0 /\ TableAt(2, "A") # 0
    /\ ~IsFinite(GrowthAt(1)) /\ ~IsFinite(ContribAt(1, "A"))
    /\ IsNaN(ContribAt(2, "A")) /\ IsFinite(ContribAt(2, "B"))

\* C9: no call changes the caller's table (same periods, same columns in the
\* same order, same cells, no 'total', 'pctg_growth_*' or 'contrib_*' column
\* added), and repeating a call on the same table returns equal results.
C9_NoMutation ==
    /\ [](Range(CallerTable.columns) \subseteq Range(Categories))
    /\ [][/\ frames'["df"] = frames["df"]
          /\ op' = op =>
                 <<growth_df', contrib_df', tops_df', bots_df'>>
                     = <<growth_df, contrib_df, tops_df, bots_df>>]_vars

\* The pipeline ran on the documented example: the working frame got its
\* derived columns, the caller's frame kept its two.
C9_Witness ==
    /\ op = "plot_contributions"
    /\ CallerTable = GrowthScenario
    /\ WorkingFrame.columns =
           <<"A", "B", "total", "pctg_growth_total", "pctg_growth_A",
             "pctg_growth_B", "contrib_A", "contrib_B">>
    /\ NumRows(tops_df) = 2

(***************************************************************************)
(* Properties of tops_bottoms, checked under StackSpec: the table given to *)
(* it holds real numbers (integers here).  Rows and columns are counted    *)
(* from 1.                                                                 *)
(***************************************************************************)
Stacked == op = "tops_bottoms"

StackRowsOf == 1..NumRows(CallerTable)

StackColsOf == 1..Len(CallerTable.columns)

ValueAt(i, j) == CallerTable.data[CallerTable.columns[j]][i][1]

TopAt(i, j) == tops_df.data[CallerTable.columns[j]][i]

BotAt(i, j) == bots_df.data[CallerTable.columns[j]][i]

\* The sum of the non-negative, and of the negative, values of row i in
\* columns 1..j.
RECURSIVE PosSum(_, _)
PosSum(i, j) ==
    IF j = 0 THEN 0
    ELSE PosSum(i, j - 1) + (IF ValueAt(i, j) >= 0 THEN ValueAt(i, j) ELSE 0)

RECURSIVE NegSum(_, _)
NegSum(i, j) ==
    IF j = 0 THEN 0
    ELSE NegSum(i, j - 1) + (IF ValueAt(i, j) < 0 THEN ValueAt(i, j) ELSE 0)

SameShape(f, g) == f.index = g.index /\ f.columns = g.columns

\* Every boundary is a whole number (the inputs are).
WholeBoundaries ==
    \A i \in StackRowsOf : \A j \in StackColsOf :
        TopAt(i, j)[2] = 1 /\ BotAt(i, j)[2] = 1

RemoveAt(s, j) == SubSeq(s, 1, j - 1) \o SubSeq(s, j + 1, Len(s))

\* C4: in every row, whatever the order of its values, the largest top is
\* the sum of the non-negative entries and the smallest bottom is the sum of
\* the negative entries (0 when there are none).
C4_StackReconstruction ==
    Stacked =>
        /\ WholeBoundaries
        /\ \A i \in StackRowsOf :
               LET k == Len(CallerTable.columns)
               IN  /\ \E j \in StackColsOf : TopAt(i, j)[1] = PosSum(i, k)
                   /\ \A j \in StackColsOf : TopAt(i, j)[1] <= PosSum(i, k)
                   /\ \E j \in StackColsOf : BotAt(i, j)[1] = NegSum(i, k)
                   /\ \A j \in StackColsOf : BotAt(i, j)[1] >= NegSum(i, k)

\* Two rows with the same values in different column orders, each with two
\* positive entries and a negative one.
C4_Witness ==
    /\ Stacked
    /\ NumRows(CallerTable) = 2
    /\ AsArray(CallerTable) = <<<<Real(2), Real(-3), Real(2)>>,
                                <<Real(-3), Real(2), Real(2)>>>>
    /\ TopAt(1, 3) = Real(4) /\ TopAt(2, 3) = Real(4)
    /\ BotAt(1, 2) = Real(-3) /\ BotAt(2, 1) = Real(-3)

\* C5: each row is processed on its own from pos = neg = 0, in column order:
\* a value v >= 0 gets bottom = pos, top = pos + v; a value v < 0 gets
\* top = neg, bottom = neg + v.  The results have the shape of the input, and
\* the row [5, -3, 2] yields tops [5, 0, 7] and bottoms [0, -3, 5].
C5_PerRowAccumulators ==
    Stacked =>
        /\ SameShape(tops_df, CallerTable)
        /\ SameShape(bots_df, CallerTable)
        /\ \A i \in StackRowsOf : \A j \in StackColsOf :
               IF ValueAt(i, j) >= 0
               THEN /\ BotAt(i, j) = Real(PosSum(i, j - 1))
                    /\ TopAt(i, j) = Real(PosSum(i, j - 1) + ValueAt(i, j))
               ELSE /\ TopAt(i, j) = Real(NegSum(i, j - 1))
                    /\ BotAt(i, j) = Real(NegSum(i, j - 1) + ValueAt(i, j))
        /\ CallerTable = StackScenario =>
               /\ tops_df = TableOf(<<"A", "B", "C">>, <<<<5, 0, 7>>>>)
               /\ bots_df = TableOf(<<"A", "B", "C">>, <<<<0, -3, 5>>>>)

\* A second row that starts again from 0 after a first row that moved both
\* accumulators.
C5_Witness ==
    /\ Stacked
    /\ NumRows(CallerTable) = 2
    /\ Len(CallerTable.columns) = 3
    /\ PosSum(1, 3) > 0 /\ NegSum(1, 3) < 0
    /\ ValueAt(2, 1) > 0 /\ BotAt(2, 1) = Real(0)
    /\ ValueAt(2, 2) < 0 /\ TopAt(2, 2) = Real(0)

\* C6: a cell whose value is 0 gets top = bottom = the current pos, and the
\* other cells of its row get the tops and bottoms they would get with the
\* zero-valued column removed.
C6_ZeroHeightSegment ==
    Stacked =>
        \A i \in StackRowsOf : \A j \in StackColsOf :
            ValueAt(i, j) = 0 =>
                LET row  == AsArray(CallerTable)[i]
                    tops == [c \in StackColsOf |-> TopAt(i, c)]
                    bots == [c \in StackColsOf |-> BotAt(i, c)]
                    rest == StackRow(RemoveAt(row, j), 1, Real(0), Real(0),
                                     <<>>, <<>>)
                IN  /\ TopAt(i, j) = Real(PosSum(i, j - 1))
                    /\ BotAt(i, j) = Real(PosSum(i, j - 1))
                    /\ rest.tops = RemoveAt(tops, j)
                    /\ rest.bots = RemoveAt(bots, j)

\* A zero between a positive and a later value, with pos and neg apart.
C6_Witness ==
    /\ Stacked
    /\ \E i \in StackRowsOf :
           /\ Len(CallerTable.columns) = 3
           /\ ValueAt(i, 1) > 0 /\ ValueAt(i, 2) = 0 /\ ValueAt(i, 3) > 0
           /\ TopAt(i, 2) = Real(ValueAt(i, 1))
           /\ BotAt(i, 2) = Real(ValueAt(i, 1))
           /\ BotAt(i, 3) = Real(ValueAt(i, 1))

\* Columns jp < j of row i hold values of the same sign with none of that
\* sign between them.
ConsecutiveSameSign(i, jp, j) ==
    /\ jp < j
    /\ (ValueAt(i, jp) >= 0) = (ValueAt(i, j) >= 0)
    /\ \A m \in (jp + 1)..(j - 1) : (ValueAt(i, m) >= 0) # (ValueAt(i, j) >= 0)

\* C10: every segment has top >= bottom and height |v|; a non-negative cell
\* has 0 <= bottom <= top, a negative cell bottom < top <= 0; consecutive
\* segments of the same sign are adjacent.
C10_SegmentGeometry ==
    Stacked =>
        /\ WholeBoundaries
        /\ \A i \in StackRowsOf : \A j \in StackColsOf :
               LET v   == ValueAt(i, j)
                   top == TopAt(i, j)[1]
                   bot == BotAt(i, j)[1]
               IN  /\ top >= bot
                   /\ top - bot = Abs(v)
                   /\ v >= 0 => (0 <= bot /\ bot <= top)
                   /\ v < 0 => (bot < top /\ top <= 0)
                   /\ \A jp \in StackColsOf :
                          ConsecutiveSameSign(i, jp, j) =>
                              IF v >= 0 THEN BotAt(i, j) = TopAt(i, jp)
                              ELSE TopAt(i, j) = BotAt(i, jp)

\* One row stacks two positive segments around a negative one, another
\* stacks two negative segments.
C10_Witness ==
    /\ Stacked
    /\ \E i \in StackRowsOf :
           /\ Len(CallerTable.columns) = 3
           /\ ValueAt(i, 1) > 0 /\ ValueAt(i, 2) < 0 /\ ValueAt(i, 3) > 0
           /\ ConsecutiveSameSign(i, 1, 3)
           /\ BotAt(i, 3) = TopAt(i, 1)
    /\ \E i \in StackRowsOf :
           /\ ValueAt(i, 1) < 0 /\ ValueAt(i, 2) < 0
           /\ TopAt(i, 2) = BotAt(i, 1)
           /\ BotAt(i, 2) = Real(2 * ValueAt(i, 1))

====
